---- MODULE Spec2Model ----
(***************************************************************************)
(* A model of slogdriver: the slog.Handler that writes log records in the  *)
(* Stackdriver / Cloud Logging JSON format, together with the label chain  *)
(* and the trace value it reads from the context.                          *)
(*                                                                         *)
(* A line is modelled as the sequence of calls the handler makes on the    *)
(* goldjson.LineWriter (a field, the opening of a nested record, its       *)
(* closing).  A slice is a view (array, len, cap) on a backing array of    *)
(* the heap, as in Go.  A closure is the data it captures.                 *)
(***************************************************************************)
EXTENDS Integers, Sequences, FiniteSets, TLC

VARIABLES
    handlers,    \* the Handler objects allocated so far
    heap,        \* backing arrays of the attrBuilders slices
    encoders,    \* goldjson encoders: the keys each has prepared
    hist,        \* history: per handler, the derivation calls from the base handler
    ctxs,        \* the contexts created so far
    containers,  \* the labelContainer objects allocated so far
    ctxHist,     \* history: per context, the AddLabels and Trace.Context calls on its path
    ret,         \* the last call made, what it returned or emitted, what it saw
    procs,       \* the calls in progress, one per goroutine: where each is, its locals
    lines,       \* the goldjson.LineWriter objects allocated by the calls in progress
    cell         \* a variable of the caller's: the slog.Value a LogValuer of its returns

vars == <<handlers, heap, encoders, hist, ctxs, containers, ctxHist, ret, procs, lines, cell>>

-----------------------------------------------------------------------------
(* Bounds of the model. *)

MaxHandlers == 4
MaxCtxs == 3

-----------------------------------------------------------------------------
(* log/slog levels and the field names. *)

LevelDebug == -4
LevelInfo == 0
LevelWarn == 4
LevelError == 8

fieldMessage == "message"
fieldTimestamp == "timestamp"
fieldSeverity == "severity"
fieldSourceLocation == "logging.googleapis.com/sourceLocation"
fieldSourceFile == "file"
fieldSourceLine == "line"
fieldSourceFunction == "function"
fieldTraceID == "logging.googleapis.com/trace"
fieldTraceSpanID == "logging.googleapis.com/spanId"
fieldTraceSampled == "logging.googleapis.com/trace_sampled"
fieldLabels == "logging.googleapis.com/labels"

PreparedKeys ==
    { fieldMessage, fieldTimestamp, fieldSeverity, fieldSourceLocation,
      fieldSourceFile, fieldSourceLine, fieldSourceFunction, fieldTraceID,
      fieldTraceSpanID, fieldTraceSampled, fieldLabels }

-----------------------------------------------------------------------------
(* Errors: an error value is the sequence of the errors joined in it, nil  *)
(* the empty one.  errors.Join drops nil operands.                         *)

NoError == << >>

Join(e1, e2) == e1 \o e2

-----------------------------------------------------------------------------
(* slog values and attributes.  Every value carries the same fields:       *)
(*   Kind  the slog.Kind (LogValuer before Resolve; Other: none of them)   *)
(*   S, N, B  the string, numeric and boolean payload; Any: the text the   *)
(*         value holds (the message of an error)                           *)
(*   OK    Time: the encoder accepts it; Any: json.Marshal succeeds        *)
(*   E, M  Any: the value is an error / a json.Marshaler                   *)
(*   G     Group: the child attributes; LogValuer: the value LogValue()    *)
(*         returns, as the one attribute of G                              *)

Val(kind, s, n, b, ok, e, m, g) ==
    [Kind |-> kind, S |-> s, N |-> n, B |-> b, OK |-> ok, E |-> e, M |-> m, G |-> g]

Attr(key, value) == [Key |-> key, Value |-> value]

StringValue(s) == Val("String", s, 0, FALSE, TRUE, FALSE, FALSE, << >>)
Int64Value(n) == Val("Int64", "", n, FALSE, TRUE, FALSE, FALSE, << >>)
Uint64Value(n) == Val("Uint64", "", n, FALSE, TRUE, FALSE, FALSE, << >>)
Float64Value(n) == Val("Float64", "", n, FALSE, TRUE, FALSE, FALSE, << >>)
BoolValue(b) == Val("Bool", "", 0, b, TRUE, FALSE, FALSE, << >>)
DurationValue(n) == Val("Duration", "", n, FALSE, TRUE, FALSE, FALSE, << >>)
TimeValue(s, ok) == Val("Time", s, 0, FALSE, ok, FALSE, FALSE, << >>)
GroupValue(as) == Val("Group", "", 0, FALSE, TRUE, FALSE, FALSE, as)
AnyValue(s, ok, e, m) == Val("Any", s, 0, FALSE, ok, e, m, << >>)
OtherValue == Val("Other", "", 0, FALSE, TRUE, FALSE, FALSE, << >>)
LogValuerValue(v) == Val("LogValuer", "", 0, FALSE, TRUE, FALSE, FALSE, <<Attr("", v)>>)

\* a LogValuer whose LogValue() returns what the caller's variable holds
CellValuer == Val("LogValuer", "cell", 0, FALSE, TRUE, FALSE, FALSE, << >>)

\* what the caller's variable holds at first
CellValue0 == StringValue("v0")

RECURSIVE Resolve(_)
\* v.Resolve(): LogValue() called until the value is no LogValuer
Resolve(v) ==
    IF v.Kind # "LogValuer" THEN v
    ELSE IF v = CellValuer THEN Resolve(cell)
    ELSE Resolve(v.G[1].Value)

RECURSIVE Snapshot(_)
\* the attributes as with the values they have now: a LogValuer on the caller's
\* variable becomes one that returns what the variable holds now
Snapshot(as) ==
    [i \in 1..Len(as) |->
        IF as[i].Value = CellValuer THEN Attr(as[i].Key, LogValuerValue(cell))
        ELSE IF as[i].Value.Kind = "Group"
        THEN Attr(as[i].Key, GroupValue(Snapshot(as[i].Value.G)))
        ELSE as[i]]

-----------------------------------------------------------------------------
(* goldjson.LineWriter: the calls made on it, in order.                    *)

Field(key, ty, s, n, b) == [t |-> "field", key |-> key, ty |-> ty, S |-> s, N |-> n, B |-> b]
Open(key) == [t |-> "open", key |-> key, ty |-> "", S |-> "", N |-> 0, B |-> FALSE]
Close == [t |-> "close", key |-> "", ty |-> "", S |-> "", N |-> 0, B |-> FALSE]

NewLine == << >>

AddString(l, key, s) == Append(l, Field(key, "string", s, 0, FALSE))
AddInt64(l, key, n) == Append(l, Field(key, "int64", "", n, FALSE))
AddUint64(l, key, n) == Append(l, Field(key, "uint64", "", n, FALSE))
AddFloat64(l, key, n) == Append(l, Field(key, "float64", "", n, FALSE))
AddBool(l, key, b) == Append(l, Field(key, "bool", "", 0, b))
StartRecord(l, key) == Append(l, Open(key))
EndRecord(l) == Append(l, Close)
\* the key of the attribute bound to the caller's variable
CellKey == "V"

\* AddStaticFields with static fields that refer to the caller's variable
\* in place of holding the value serialized from it
AddStaticFieldsLive(l, staticFields) ==
    l \o [i \in 1..Len(staticFields) |->
            IF staticFields[i].key = CellKey
            THEN [staticFields[i] EXCEPT !.S = Resolve(cell).S]
            ELSE staticFields[i]]

AddStaticFields(l, staticFields) == l \o staticFields

\* AddTime and AddMarshal report a value they cannot encode and write nothing for it.
AddTime(l, key, v) ==
    IF v.OK THEN [l |-> Append(l, Field(key, "time", v.S, 0, FALSE)), err |-> NoError]
    ELSE [l |-> l, err |-> <<"time: cannot be encoded">>]

\* err.Error() of a value that is an error
ErrorString(v) == v.S

\* json.Marshal(val) of a value it can encode: what MarshalJSON renders for a
\* json.Marshaler (JSONError: an object with the message), {} for an error
\* that has no exported field, the quoted text for a plain value
jsonMarshal(v) ==
    IF v.M THEN "{\"message\":\"" \o v.S \o "\"}"
    ELSE IF v.E THEN "{}"
    ELSE "\"" \o v.S \o "\""

AddMarshal(l, key, v) ==
    IF v.OK THEN [l |-> Append(l, Field(key, "json", jsonMarshal(v), 0, FALSE)), err |-> NoError]
    ELSE [l |-> l, err |-> <<"cannot be marshaled">>]

-----------------------------------------------------------------------------
(* Handler.addAttr, addGroup, addAny: the dispatch on the resolved kind.   *)

\* addAny testing for an error only, whether or not it is a json.Marshaler
addAnyErrorFirst(l, a, v) ==
    IF v.E
    THEN [l |-> AddString(l, a.Key, ErrorString(v)), err |-> NoError]
    ELSE AddMarshal(l, a.Key, v)

addAny(l, a, v) ==
    IF v.E /\ ~v.M
    THEN [l |-> AddString(l, a.Key, ErrorString(v)), err |-> NoError]
    ELSE AddMarshal(l, a.Key, v)

\* slog.Kind.String(): the name of the kind, and one name for every value
\* that is none of the kinds
KindString(v) ==
    IF v.Kind \in { "Any", "Bool", "Duration", "Float64", "Int64", "String", "Time",
                    "Uint64", "Group", "LogValuer" }
    THEN v.Kind
    ELSE "<unknown slog.Kind>"

\* the default branch of addAttr returning nil
errBadKindNil(l, v) == [l |-> l, err |-> NoError]

\* the default branch of addAttr: fmt.Errorf("bad kind: %s", v.Kind())
errBadKind(l, v) == [l |-> l, err |-> <<"bad kind: " \o KindString(v)>>]

RECURSIVE addAttr(_, _)
RECURSIVE addGroupLoop(_, _, _, _)

\* the loop of addGroup over attrs[i..], err the errors joined so far
addGroupLoop(l, attrs, i, err) ==
    IF i > Len(attrs) THEN [l |-> l, err |-> err]
    ELSE LET r == addAttr(l, attrs[i])
         IN  addGroupLoop(r.l, attrs, i + 1, Join(err, r.err))

\* addGroup without the test for zero attributes
addGroupAlways(l, a, v) ==
    LET r == addGroupLoop(StartRecord(l, a.Key), v.G, 1, NoError)
    IN  [l |-> EndRecord(r.l), err |-> r.err]

addGroup(l, a, v) ==
    LET attrs == v.G IN
    IF Len(attrs) = 0 THEN [l |-> l, err |-> NoError]
    ELSE LET r == addGroupLoop(StartRecord(l, a.Key), attrs, 1, NoError)
         IN  [l |-> EndRecord(r.l), err |-> r.err]

addAttr(l, a) ==
    LET v == Resolve(a.Value) IN
    CASE v.Kind = "Group" -> addGroup(l, a, v)
      [] v.Kind = "String" -> [l |-> AddString(l, a.Key, v.S), err |-> NoError]
      [] v.Kind = "Int64" -> [l |-> AddInt64(l, a.Key, v.N), err |-> NoError]
      [] v.Kind = "Uint64" -> [l |-> AddUint64(l, a.Key, v.N), err |-> NoError]
      [] v.Kind = "Float64" -> [l |-> AddFloat64(l, a.Key, v.N), err |-> NoError]
      [] v.Kind = "Bool" -> [l |-> AddBool(l, a.Key, v.B), err |-> NoError]
      [] v.Kind = "Duration" -> [l |-> AddInt64(l, a.Key, v.N), err |-> NoError]
      [] v.Kind = "Time" -> AddTime(l, a.Key, v)
      [] v.Kind = "Any" -> addAny(l, a, v)
      [] OTHER -> errBadKind(l, v)

-----------------------------------------------------------------------------
(* Go slices.  A slice is a view of len elements, with room for cap, on    *)
(* the backing array heap[arr]; the nil slice has no array.  A composition *)
(* step (an element of attrBuilders) is the closure's captured data: for   *)
(* WithAttrs the static fields and err, for WithGroup the name.            *)

NoStep == [kind |-> "none", name |-> "", staticFields |-> << >>, err |-> NoError]
AttrsStep(staticFields, err) ==
    [kind |-> "attrs", name |-> "", staticFields |-> staticFields, err |-> err]
GroupStep(name) ==
    [kind |-> "group", name |-> name, staticFields |-> << >>, err |-> NoError]

NilSlice == [arr |-> 0, len |-> 0, cap |-> 0]

Elements(hp, s) == IF s.arr = 0 THEN << >> ELSE SubSeq(hp[s.arr], 1, s.len)

\* make([]T, 0, cap)
MakeSlice(hp, cap) ==
    [heap |-> Append(hp, [i \in 1..cap |-> NoStep]),
     slice |-> [arr |-> Len(hp) + 1, len |-> 0, cap |-> cap]]

\* append(s, values...): in place when the capacity suffices, else into a
\* new array of at least twice the capacity
GoAppend(hp, s, values) ==
    LET n == Len(values) IN
    IF n = 0 THEN [heap |-> hp, slice |-> s]
    ELSE IF s.len + n <= s.cap
    THEN [heap |-> [hp EXCEPT ![s.arr] =
                      [i \in 1..s.cap |->
                         IF i > s.len /\ i <= s.len + n THEN values[i - s.len] ELSE @[i]]],
          slice |-> [s EXCEPT !.len = s.len + n]]
    ELSE LET newcap == IF s.len + n > 2 * s.cap THEN s.len + n ELSE 2 * s.cap
             old == Elements(hp, s)
         IN  [heap |-> Append(hp, [i \in 1..newcap |->
                                     IF i <= s.len THEN old[i]
                                     ELSE IF i <= s.len + n THEN values[i - s.len]
                                     ELSE NoStep]),
              slice |-> [arr |-> Len(hp) + 1, len |-> s.len + n, cap |-> newcap]]

\* cloneSlice returning the slice it was given
cloneSliceSame(hp, slice, extraCap) == [heap |-> hp, slice |-> slice]

cloneSlice(hp, slice, extraCap) ==
    LET m == MakeSlice(hp, slice.len + extraCap)
    IN  GoAppend(m.heap, m.slice, Elements(hp, slice))

cloneAppend(hp, slice, values) ==
    LET c == cloneSlice(hp, slice, Len(values))
    IN  GoAppend(c.heap, c.slice, values)

-----------------------------------------------------------------------------
(* Config, NewHandler, WithAttrs, WithGroup, Enabled.                      *)

\* Config.Level is a slog.Leveler or nil
NilLeveler == [set |-> FALSE, level |-> 0]
Leveler(n) == [set |-> TRUE, level |-> n]

Config(projectID, level) == [ProjectID |-> projectID, Level |-> level]

\* the handler NewHandler returns, on the encoder NewEncoder returns
NewHandler(config) == [encoder |-> 1, config |-> config, attrBuilders |-> NilSlice]
NewEncoder == [prepared |-> PreparedKeys]

PrepareKey(e, key) == [e EXCEPT !.prepared = @ \cup {key}]

RECURSIVE staticLoop(_, _, _, _)
\* the loop of WithAttrs over as[i..], on the static fields' writer w
staticLoop(w, as, i, err) ==
    IF i > Len(as) THEN [l |-> w, err |-> err]
    ELSE LET r == addAttr(w, as[i])
         IN  staticLoop(r.l, as, i + 1, Join(err, r.err))

\* w.End() of the static fields' writer: there is no sink to fail
StaticFieldsEnd(w) == NoError

\* The step WithAttrs appends.  The closure reads the variable err when it
\* runs, and WithAttrs assigns w.End() to err after the loop's errors.
WithAttrsStep(as) ==
    LET r == staticLoop(NewLine, as, 1, NoError)
        err == StaticFieldsEnd(r.l)
    IN  AttrsStep(r.l, err)

\* clone := *h; clone.attrBuilders = cloneAppend(h.attrBuilders, step)
WithAttrsClone(hp, h, as) ==
    LET ca == cloneAppend(hp, h.attrBuilders, <<WithAttrsStep(as)>>)
    IN  [heap |-> ca.heap, encoders |-> encoders,
         handler |-> [h EXCEPT !.attrBuilders = ca.slice]]

\* WithGroup preparing the key on the receiver's encoder, without Clone()
WithGroupShared(hp, h, name) ==
    LET ca == cloneAppend(hp, h.attrBuilders, <<GroupStep(name)>>)
    IN  [heap |-> ca.heap,
         encoders |-> [encoders EXCEPT ![h.encoder] = PrepareKey(@, name)],
         handler |-> [h EXCEPT !.attrBuilders = ca.slice]]

\* clone.encoder = h.encoder.Clone(); clone.encoder.PrepareKey(name)
WithGroupClone(hp, h, name) ==
    LET ca == cloneAppend(hp, h.attrBuilders, <<GroupStep(name)>>)
        encs == Append(encoders, encoders[h.encoder])
        e == Len(encs)
    IN  [heap |-> ca.heap,
         encoders |-> [encs EXCEPT ![e] = PrepareKey(@, name)],
         handler |-> [h EXCEPT !.encoder = e, !.attrBuilders = ca.slice]]

\* Enabled comparing with > in place of >=
EnabledAbove(h, l) ==
    LET minLevel == IF h.config.Level.set THEN h.config.Level.level ELSE LevelInfo
    IN  l > minLevel

Enabled(h, l) ==
    LET minLevel == IF h.config.Level.set THEN h.config.Level.level ELSE LevelInfo
    IN  l >= minLevel

-----------------------------------------------------------------------------
(* Contexts, labels and the trace.  A context is a node of the chain       *)
(* context.WithValue builds: a key, its value, the parent context.         *)

Trace(id, spanID, sampled) == [ID |-> id, SpanID |-> spanID, Sampled |-> sampled]
ZeroTrace == Trace("", "", FALSE)

NewLabel(key, value) == [Key |-> key, Value |-> value]

Background == [key |-> "background", labels |-> 0, trace |-> ZeroTrace, parent |-> 0]

RECURSIVE CtxValue(_, _)
\* ctx.Value(key): the nearest node of the chain holding key, 0 when none does
CtxValue(c, key) ==
    IF c = 0 THEN 0
    ELSE IF ctxs[c].key = key THEN c
    ELSE CtxValue(ctxs[c].parent, key)

labelsFromContext(c) ==
    LET n == CtxValue(c, "labels") IN IF n = 0 THEN 0 ELSE ctxs[n].labels

traceFromContext(c) ==
    LET n == CtxValue(c, "trace") IN IF n = 0 THEN ZeroTrace ELSE ctxs[n].trace

RECURSIVE IterateLocalFirst(_)
\* Iterate calling f on the container's own labels before its parent's
IterateLocalFirst(l) ==
    IF l = 0 THEN << >>
    ELSE containers[l].Labels \o IterateLocalFirst(containers[l].Parent)

RECURSIVE Iterate(_)
\* labelContainer.Iterate: the labels f is called with, in the order of the calls
Iterate(l) ==
    IF l = 0 THEN << >>
    ELSE Iterate(containers[l].Parent) \o containers[l].Labels

-----------------------------------------------------------------------------
(* Handler.Handle and the steps it is made of.  A record is                *)
(* [Message, Time, Level, PC, Attrs].                                      *)

Record(message, time, level, pc, attrs) ==
    [Message |-> message, Time |-> time, Level |-> level, PC |-> pc, Attrs |-> attrs]

\* time.Time.Round(0) strips the monotonic clock reading (field B of a Time)
Round0(v) == [v EXCEPT !.B = FALSE]

\* runtime.CallersFrames([]uintptr{pc}).Next(): the zero Frame when pc resolves to nothing
Frame(pc) ==
    IF pc = 0 THEN [File |-> "", Line |-> 0, Function |-> ""]
    ELSE [File |-> "main.go", Line |-> pc, Function |-> "main.main"]

addMessage(l, r) == AddString(l, fieldMessage, r.Message)

addTimestamp(l, r) == AddTime(l, fieldTimestamp, Round0(r.Time)).l

\* addSeverity comparing with > in place of >=
addSeverityAbove(l, r) ==
    CASE r.Level > LevelError -> AddString(l, fieldSeverity, "ERROR")
      [] r.Level > LevelWarn -> AddString(l, fieldSeverity, "WARN")
      [] r.Level > LevelInfo -> AddString(l, fieldSeverity, "INFO")
      [] OTHER -> AddString(l, fieldSeverity, "DEBUG")

addSeverity(l, r) ==
    CASE r.Level >= LevelError -> AddString(l, fieldSeverity, "ERROR")
      [] r.Level >= LevelWarn -> AddString(l, fieldSeverity, "WARN")
      [] r.Level >= LevelInfo -> AddString(l, fieldSeverity, "INFO")
      [] OTHER -> AddString(l, fieldSeverity, "DEBUG")

addSourceLocation(l, r) ==
    LET f == Frame(r.PC)
        l1 == StartRecord(l, fieldSourceLocation)
        l2 == AddString(l1, fieldSourceFile, f.File)
        l3 == AddInt64(l2, fieldSourceLine, f.Line)
        l4 == AddString(l3, fieldSourceFunction, f.Function)
    IN  EndRecord(l4)

\* addTrace writing the span id whenever there is one, with or without a trace id
addTraceSpanAlone(h, c, l) ==
    LET trace == traceFromContext(c)
        l0 == IF trace.SpanID # "" THEN AddString(l, fieldTraceSpanID, trace.SpanID) ELSE l
    IN  IF trace.ID = "" THEN l0
        ELSE AddBool(AddString(l0, fieldTraceID,
                               "projects/" \o h.config.ProjectID \o "/traces/" \o trace.ID),
                     fieldTraceSampled, trace.Sampled)

\* addTrace formatting the trace as "<project>/traces/<id>"
addTraceNoPrefix(h, c, l) ==
    LET trace == traceFromContext(c) IN
    IF trace.ID = "" THEN l
    ELSE LET l1 == AddString(l, fieldTraceID, h.config.ProjectID \o "/traces/" \o trace.ID)
             l2 == IF trace.SpanID # "" THEN AddString(l1, fieldTraceSpanID, trace.SpanID)
                   ELSE l1
         IN  AddBool(l2, fieldTraceSampled, trace.Sampled)

addTrace(h, c, l) ==
    LET trace == traceFromContext(c) IN
    IF trace.ID = "" THEN l
    ELSE LET l1 == AddString(l, fieldTraceID,
                             "projects/" \o h.config.ProjectID \o "/traces/" \o trace.ID)
             l2 == IF trace.SpanID # "" THEN AddString(l1, fieldTraceSpanID, trace.SpanID)
                   ELSE l1
         IN  AddBool(l2, fieldTraceSampled, trace.Sampled)

RECURSIVE labelsVisit(_, _, _, _)
\* the calls of addLabels' visitor on labels[i..]: opened and l are its captured variables
labelsVisit(labels, i, opened, l) ==
    IF i > Len(labels) THEN [opened |-> opened, l |-> l]
    ELSE LET l1 == IF ~opened THEN StartRecord(l, "logging.googleapis.com/labels") ELSE l
         IN  labelsVisit(labels, i + 1, TRUE, AddString(l1, labels[i].Key, labels[i].Value))

\* addLabels opening the labels record before it has seen a label
addLabelsAlwaysOpen(c, l) ==
    LET v == labelsVisit(Iterate(labelsFromContext(c)), 1, TRUE,
                         StartRecord(l, "logging.googleapis.com/labels"))
    IN  EndRecord(v.l)

addLabels(c, l) ==
    LET v == labelsVisit(Iterate(labelsFromContext(c)), 1, FALSE, l)
    IN  IF v.opened THEN EndRecord(v.l) ELSE v.l

RECURSIVE addAttrsRawLoop(_, _, _, _)
addAttrsRawLoop(l, attrs, i, err) ==
    IF i > Len(attrs) THEN [l |-> l, err |-> err]
    ELSE LET a == addAttr(l, attrs[i])
         IN  addAttrsRawLoop(a.l, attrs, i + 1, Join(err, a.err))

RECURSIVE addAttrsRawStopLoop(_, _, _)
addAttrsRawStopLoop(l, attrs, i) ==
    IF i > Len(attrs) THEN [l |-> l, err |-> NoError]
    ELSE LET a == addAttr(l, attrs[i])
         IN  IF a.err # NoError THEN a ELSE addAttrsRawStopLoop(a.l, attrs, i + 1)

\* addAttrsRaw returning at the first attribute that fails
addAttrsRawStop(l, r) == addAttrsRawStopLoop(l, r.Attrs, 1)

addAttrsRaw(l, r) == addAttrsRawLoop(l, r.Attrs, 1, NoError)

\* the builders taken first to last: h.attrBuilders[i]
attrBuilderAtForward(builders, i) == builders[i + 1]

\* attrBuilder := h.attrBuilders[len(h.attrBuilders)-1-i], i counted from 0
attrBuilderAt(builders, i) == builders[Len(builders) - i]

RECURSIVE composeLoopInside(_, _, _)
\* the loop of addAttrs giving each builder taken as next to the closure built
\* so far, in place of wrapping that closure in it
composeLoopInside(builders, i, b) ==
    IF i >= Len(builders) THEN b
    ELSE composeLoopInside(builders, i + 1, b \o <<attrBuilderAt(builders, i)>>)

RECURSIVE composeLoop(_, _, _)
\* The loop of addAttrs from iteration i on.  The closure b is the sequence of
\* the builders it calls, each with the rest as its next; the empty sequence
\* is the closure that calls addAttrsRaw.
composeLoop(builders, i, b) ==
    IF i >= Len(builders) THEN b
    ELSE composeLoop(builders, i + 1, <<attrBuilderAt(builders, i)>> \o b)

RECURSIVE call(_, _, _)

\* calling the closure b, the WithGroup step ending its record only when next
\* returned nil (EndRecord called after next, not deferred, behind an early return)
callNoDefer(b, l, r) ==
    IF Len(b) = 0 THEN addAttrsRaw(l, r)
    ELSE LET step == Head(b)
             next == Tail(b)
         IN  IF step.kind = "attrs"
             THEN LET n == call(next, AddStaticFields(l, step.staticFields), r)
                  IN  [l |-> n.l, err |-> Join(step.err, n.err)]
             ELSE LET n == call(next, StartRecord(l, step.name), r)
                  IN  [l |-> IF n.err = NoError THEN EndRecord(n.l) ELSE n.l, err |-> n.err]

\* calling the closure b
call(b, l, r) ==
    IF Len(b) = 0 THEN addAttrsRaw(l, r)
    ELSE LET step == Head(b)
             next == Tail(b)
         IN  IF step.kind = "attrs"
             THEN LET n == call(next, AddStaticFields(l, step.staticFields), r)
                  IN  [l |-> n.l, err |-> Join(step.err, n.err)]
             ELSE LET n == call(next, StartRecord(l, step.name), r)
                  IN  [l |-> EndRecord(n.l), err |-> n.err]

addAttrs(h, l, r) ==
    LET builders == Elements(heap, h.attrBuilders) IN
    IF Len(builders) = 0 THEN addAttrsRaw(l, r)
    ELSE call(composeLoop(builders, 0, << >>), l, r)

\* l.End() dropping the error of the sink's Write
LineEndSilent(l, sinkOK) == NoError

\* l.End(): the line goes to the sink, whose Write may fail
LineEnd(l, sinkOK) == IF sinkOK THEN NoError ELSE <<"error writing">>

\* Handle: the line built, whether the sink took it, and the error returned
Handle(h, c, r, sinkOK) ==
    LET l1 == addMessage(NewLine, r)
        l2 == addTimestamp(l1, r)
        l3 == addSeverity(l2, r)
        l4 == addSourceLocation(l3, r)
        l5 == addTrace(h, c, l4)
        l6 == addLabels(c, l5)
        a == addAttrs(h, l6, r)
    IN  [line |-> a.l, written |-> sinkOK, err |-> Join(a.err, LineEnd(a.l, sinkOK))]

-----------------------------------------------------------------------------
(* The values the model draws its inputs from.                             *)

AttrX == Attr("X", Int64Value(1))
AttrY == Attr("Y", Int64Value(2))
AttrZ == Attr("Z", StringValue("z"))
AttrE == Attr("E", GroupValue(<< >>))
AttrP == Attr("P", GroupValue(<<Attr("Q", BoolValue(TRUE)), AttrE>>))

StaticAttrLists == { <<AttrX>>, <<AttrY, AttrE, AttrP>> }
GroupNames == { "G", "H" }

Time0 == TimeValue("2023-06-15T19:24:13.123456789Z", TRUE)

RecordAttrLists == { <<AttrE, AttrZ>> }
Records == { Record("hello", Time0, LevelError, 1, as) : as \in RecordAttrLists }

DefaultConfig == Config("proj", NilLeveler)

-----------------------------------------------------------------------------
(* The state machine.                                                      *)

NoRecord == Record("", Time0, 0, 0, << >>)

NoCall ==
    [op |-> "none", h |-> 0, c |-> 0, r |-> NoRecord, level |-> 0,
     line |-> << >>, written |-> FALSE, err |-> NoError, enabled |-> FALSE,
     seen |-> [handler |-> NewHandler(DefaultConfig), prepared |-> NewEncoder,
               steps |-> << >>],
     nh |-> 0,
     afterFailure |-> FALSE,
     cell |-> CellValue0]

InitWith(config) ==
    /\ handlers = <<NewHandler(config)>>
    /\ heap = << >>
    /\ encoders = <<NewEncoder>>
    /\ hist = << << >> >>
    /\ ctxs = <<Background>>
    /\ containers = << >>
    /\ ctxHist = << << >> >>
    /\ ret = NoCall
    /\ procs = << >>
    /\ lines = << >>
    /\ cell = CellValue0

Init == InitWith(DefaultConfig)

HandlerIds == 1..Len(handlers)
CtxIds == 1..Len(ctxs)

WithAttrs(h, as) ==
    /\ Len(handlers) < MaxHandlers
    /\ LET d == WithAttrsClone(heap, handlers[h], as) IN
         /\ handlers' = Append(handlers, d.handler)
         /\ heap' = d.heap
         /\ encoders' = d.encoders
    /\ hist' = Append(hist, Append(hist[h], [op |-> "WithAttrs", as |-> Snapshot(as), name |-> ""]))
    /\ UNCHANGED <<ctxs, containers, ctxHist, ret, procs, lines, cell>>

WithGroup(h, name) ==
    /\ Len(handlers) < MaxHandlers
    /\ LET d == WithGroupClone(heap, handlers[h], name) IN
         /\ handlers' = Append(handlers, d.handler)
         /\ heap' = d.heap
         /\ encoders' = d.encoders
    /\ hist' = Append(hist, Append(hist[h], [op |-> "WithGroup", as |-> << >>, name |-> name]))
    /\ UNCHANGED <<ctxs, containers, ctxHist, ret, procs, lines, cell>>

\* what can be seen of handler h: its fields, its encoder's state, its steps
Look(h) ==
    [handler |-> handlers[h], prepared |-> encoders[handlers[h].encoder],
     steps |-> Elements(heap, handlers[h].attrBuilders)]

DoHandle(h, c, r, sinkOK) ==
    /\ LET o == Handle(handlers[h], c, r, sinkOK) IN
         ret' = [NoCall EXCEPT !.op = "Handle", !.h = h, !.c = c, !.r = r,
                               !.line = o.line, !.written = o.written, !.err = o.err,
                               !.seen = Look(h), !.nh = Len(handlers),
                               !.afterFailure =
                                   (ret.op = "Handle" /\ ret.h = h /\ ~ret.written),
                               !.cell = cell]
    /\ UNCHANGED <<handlers, heap, encoders, hist, ctxs, containers, ctxHist, procs, lines, cell>>

DoEnabled(h, level) ==
    /\ ret' = [NoCall EXCEPT !.op = "Enabled", !.h = h, !.level = level,
                             !.enabled = Enabled(handlers[h], level),
                             !.seen = Look(h), !.nh = Len(handlers)]
    /\ UNCHANGED <<handlers, heap, encoders, hist, ctxs, containers, ctxHist, procs, lines, cell>>

\* a container without its parent
labelContainerAlone(c, labels) == [Labels |-> labels, Parent |-> 0]

\* &labelContainer{Labels: labels, Parent: labelsFromContext(ctx)}
labelContainer(c, labels) == [Labels |-> labels, Parent |-> labelsFromContext(c)]

\* AddLabels(ctx, labels...): a new container whose parent is the container of ctx
AddLabels(c, labels) ==
    /\ Len(ctxs) < MaxCtxs
    /\ containers' = Append(containers, labelContainer(c, labels))
    /\ ctxs' = Append(ctxs, [key |-> "labels", labels |-> Len(containers) + 1,
                             trace |-> ZeroTrace, parent |-> c])
    /\ ctxHist' = Append(ctxHist, Append(ctxHist[c], [op |-> "AddLabels", labels |-> labels, trace |-> ZeroTrace]))
    /\ UNCHANGED <<handlers, heap, encoders, hist, ret, procs, lines, cell>>

\* trace.Context(ctx)
TraceContext(c, trace) ==
    /\ Len(ctxs) < MaxCtxs
    /\ ctxs' = Append(ctxs, [key |-> "trace", labels |-> 0, trace |-> trace, parent |-> c])
    /\ ctxHist' = Append(ctxHist, Append(ctxHist[c], [op |-> "Trace", labels |-> << >>, trace |-> trace]))
    /\ UNCHANGED <<handlers, heap, encoders, hist, containers, ret, procs, lines, cell>>

\* Derivations and Handle, on the background context.
Next ==
    \/ \E h \in HandlerIds, as \in StaticAttrLists : WithAttrs(h, as)
    \/ \E h \in HandlerIds, name \in GroupNames : WithGroup(h, name)
    \/ \E h \in HandlerIds, r \in Records : DoHandle(h, 1, r, TRUE)

Spec == Init /\ [][Next]_vars

\* Contexts with labels and traces, and Handle on the base handler.
LabelLists ==
    { << >>,
      <<NewLabel("a", "1"), NewLabel("b", "2")>>,
      <<NewLabel("b", "9"), NewLabel("c", "3")>> }

Traces == { Trace("abc", "", FALSE), Trace("abc", "span", TRUE), Trace("", "span", TRUE) }

ProjectIDs == { "proj", "" }

Record0 == Record("hello", Time0, LevelError, 1, << >>)

InitCtx == \E p \in ProjectIDs : InitWith(Config(p, NilLeveler))

NextCtx ==
    \/ \E c \in CtxIds, labels \in LabelLists : AddLabels(c, labels)
    \/ \E c \in CtxIds, trace \in Traces : TraceContext(c, trace)
    \/ \E c \in CtxIds : DoHandle(1, c, Record0, TRUE)

SpecCtx == InitCtx /\ [][NextCtx]_vars

\* Levels: the configured minimum, Enabled, and the severity Handle writes.
MaxLevelHandlers == 2

Levels ==
    { LevelDebug - 1, LevelDebug, LevelInfo - 1, LevelInfo, LevelInfo + 2,
      LevelWarn - 1, LevelWarn, LevelError - 1, LevelError, LevelError + 1 }

Levelers == { NilLeveler, Leveler(LevelDebug), Leveler(LevelInfo + 2), Leveler(LevelError) }

InitLevel == \E lv \in Levelers : InitWith(Config("proj", lv))

NextLevel ==
    \/ Len(handlers) < MaxLevelHandlers /\ \E h \in HandlerIds : WithAttrs(h, <<AttrX>>)
    \/ Len(handlers) < MaxLevelHandlers /\ \E h \in HandlerIds : WithGroup(h, "G")
    \/ \E h \in HandlerIds, l \in Levels : DoEnabled(h, l)
    \/ \E h \in HandlerIds, l \in Levels : DoHandle(h, 1, Record("level", Time0, l, 1, << >>), TRUE)

SpecLevel == InitLevel /\ [][NextLevel]_vars

\* Failures: attributes that cannot be serialized, bound or in the record, a
\* sink whose Write fails, records without attributes, caller-chosen keys.
MaxErrHandlers == 3

AttrCorrect == Attr("Correct", StringValue("correct"))
\* ErroringMarshal{}: a json.Marshaler whose MarshalJSON fails
AttrErroring == Attr("Erroring", AnyValue("", FALSE, FALSE, TRUE))
\* a slog.Value whose kind is slog.Kind(0xDEADBEEF)
AttrInvalid == Attr("Invalid", OtherValue)
\* a group whose only child is a group without attributes
AttrN == Attr("N", GroupValue(<<AttrE>>))
AttrB == Attr("B", GroupValue(<<AttrErroring, Attr("Q", BoolValue(TRUE)), AttrN>>))
\* an attribute whose key is the one of the message field
AttrMessage == Attr(fieldMessage, StringValue("shadow"))

ErrStaticAttrLists == { <<AttrErroring, AttrX>>, <<AttrMessage>> }

ErrRecordAttrLists ==
    { << >>, <<AttrErroring, AttrCorrect, AttrInvalid>>, <<AttrB, AttrMessage>> }

ErrRecords == { Record("attrs", Time0, LevelError, 1, as) : as \in ErrRecordAttrLists }

NextErr ==
    \/ Len(handlers) < MaxErrHandlers
           /\ \E h \in HandlerIds, as \in ErrStaticAttrLists : WithAttrs(h, as)
    \/ Len(handlers) < MaxErrHandlers /\ \E h \in HandlerIds : WithGroup(h, "G")
    \/ \E h \in HandlerIds, r \in ErrRecords, sinkOK \in BOOLEAN : DoHandle(h, 1, r, sinkOK)

SpecErr == Init /\ [][NextErr]_vars

\* Attributes bound to a variable of the caller's, which the caller assigns
\* between the calls.
MaxBindHandlers == 3

CellValues == { CellValue0, StringValue("v1") }

AttrV == Attr(CellKey, CellValuer)

BindAttrLists == { <<AttrV, Attr("P", GroupValue(<<AttrV, AttrX>>))>> }

BindRecords ==
    { Record("one", Time0, LevelInfo, 1, << >>), Record("two", Time0, LevelInfo, 2, <<AttrZ>>) }

\* the caller assigns its variable
SetCell(v) ==
    /\ cell # v
    /\ cell' = v
    /\ UNCHANGED <<handlers, heap, encoders, hist, ctxs, containers, ctxHist, ret, procs, lines>>

NextBind ==
    \/ Len(handlers) < MaxBindHandlers
           /\ \E h \in HandlerIds, as \in BindAttrLists : WithAttrs(h, as)
    \/ Len(handlers) < MaxBindHandlers /\ \E h \in HandlerIds : WithGroup(h, "G")
    \/ \E v \in CellValues : SetCell(v)
    \/ \E h \in HandlerIds, r \in BindRecords : DoHandle(h, 1, r, TRUE)

SpecBind == Init /\ [][NextBind]_vars

\* Attributes of kind Any: errors, json.Marshalers, both and neither, each
\* with a value json.Marshal can encode or cannot.
MaxAnyHandlers == 3

\* slog.Any("ErrorVal", errors.New("unknown error"))
AttrErrorVal == Attr("ErrorVal", AnyValue("unknown error", TRUE, TRUE, FALSE))
\* slog.Any("JSONErrorVal", JSONError{"foo"})
AttrJSONErrorVal == Attr("JSONErrorVal", AnyValue("foo", TRUE, TRUE, TRUE))
\* the same values under the keys of attributes given to WithAttrs
AttrBoundError == Attr("BoundError", AttrErrorVal.Value)
AttrBoundJSONError == Attr("BoundJSONError", AttrJSONErrorVal.Value)

AnyAttrs == { Attr("A", AnyValue("a", ok, e, m)) : ok \in BOOLEAN, e \in BOOLEAN, m \in BOOLEAN }

AnyStaticAttrLists == { <<AttrBoundError, AttrBoundJSONError>> }

AnyRecordAttrLists ==
    { <<a, AttrCorrect, b>> : a \in AnyAttrs, b \in { AttrErroring, AttrJSONErrorVal } }

AnyRecords == { Record("attrs", Time0, LevelError, 1, as) : as \in AnyRecordAttrLists }

NextAny ==
    \/ Len(handlers) < MaxAnyHandlers
           /\ \E h \in HandlerIds, as \in AnyStaticAttrLists : WithAttrs(h, as)
    \/ Len(handlers) < MaxAnyHandlers /\ \E h \in HandlerIds : WithGroup(h, "G")
    \/ \E h \in HandlerIds, r \in AnyRecords : DoHandle(h, 1, r, TRUE)

SpecAny == Init /\ [][NextAny]_vars

\* Concurrent Handle calls, a step at a time, via handlers derived with
\* WithGroup from the base handler: a goroutine per derived handler.
MaxConcHandlers == 3

\* NewLine handing every call the same LineWriter
EncoderNewLineShared(ls) == [lines |-> IF Len(ls) = 0 THEN <<NewLine>> ELSE ls, l |-> 1]

\* l := h.encoder.NewLine(): a LineWriter of its own for the call
EncoderNewLine(ls) == [lines |-> Append(ls, NewLine), l |-> Len(ls) + 1]

\* the record the goroutine of handler h logs
ConcRecord(h) == Record("hello", Time0, LevelInfo, h, <<Attr("id", Int64Value(h))>>)

\* go h.Handle(ctx, r), up to l := h.encoder.NewLine().  script is the calls
\* the rest of Handle makes on l, n how many of them are made.
GoHandle(h) ==
    /\ \A p \in 1..Len(procs) : procs[p].h # h
    /\ LET a == EncoderNewLine(lines) IN
         /\ lines' = a.lines
         /\ procs' = Append(procs,
                [op |-> "Handle", h |-> h, r |-> ConcRecord(h), pc |-> "write", l |-> a.l,
                 n |-> 0, script |-> Handle(handlers[h], 1, ConcRecord(h), TRUE).line,
                 sent |-> << >>, overlapped |-> FALSE])
    /\ UNCHANGED <<handlers, heap, encoders, hist, ctxs, containers, ctxHist, ret, cell>>

\* the next call on the LineWriter: a field, StartRecord or EndRecord
Write(p) ==
    /\ procs[p].pc = "write"
    /\ procs[p].n < Len(procs[p].script)
    /\ lines' = [lines EXCEPT ![procs[p].l] = Append(@, procs[p].script[procs[p].n + 1])]
    /\ procs' = [procs EXCEPT ![p].n = @ + 1]
    /\ UNCHANGED <<handlers, heap, encoders, hist, ctxs, containers, ctxHist, ret, cell>>

\* l.End(): what the LineWriter holds goes to the sink in one Write.
\* overlapped: another call had written a part of its line by then.
End(p) ==
    /\ procs[p].pc = "write"
    /\ procs[p].n = Len(procs[p].script)
    /\ procs' = [procs EXCEPT ![p].pc = "done", ![p].sent = lines[procs[p].l],
                              ![p].overlapped = \E q \in 1..Len(procs) :
                                  q # p /\ procs[q].pc = "write" /\ procs[q].n > 0]
    /\ UNCHANGED <<handlers, heap, encoders, hist, ctxs, containers, ctxHist, ret, lines, cell>>

NextConc ==
    \/ Len(handlers) < MaxConcHandlers /\ \E name \in GroupNames : WithGroup(1, name)
    \/ \E h \in HandlerIds \ {1} : GoHandle(h)
    \/ \E p \in 1..Len(procs) : Write(p)
    \/ \E p \in 1..Len(procs) : End(p)

SpecConc == Init /\ [][NextConc]_vars

\* Concurrent WithAttrs and WithGroup calls, a step at a time, on the handlers
\* of NewHandler(w, Config{}).WithGroup("G").WithAttrs(X).WithGroup("H").
MaxDeriveHandlers == 6

InitDerive ==
    LET c1 == cloneAppend(<< >>, NilSlice, <<GroupStep("G")>>)
        c2 == cloneAppend(c1.heap, c1.slice, <<WithAttrsStep(<<AttrX>>)>>)
        c3 == cloneAppend(c2.heap, c2.slice, <<GroupStep("H")>>)
        base == NewHandler(DefaultConfig)
        callG == [op |-> "WithGroup", as |-> << >>, name |-> "G"]
        callX == [op |-> "WithAttrs", as |-> <<AttrX>>, name |-> ""]
        callH == [op |-> "WithGroup", as |-> << >>, name |-> "H"]
    IN  /\ handlers = << base,
                         [base EXCEPT !.encoder = 2, !.attrBuilders = c1.slice],
                         [base EXCEPT !.encoder = 2, !.attrBuilders = c2.slice],
                         [base EXCEPT !.encoder = 3, !.attrBuilders = c3.slice] >>
        /\ heap = c3.heap
        /\ encoders = << NewEncoder, PrepareKey(NewEncoder, "G"),
                         PrepareKey(PrepareKey(NewEncoder, "G"), "H") >>
        /\ hist = << << >>, <<callG>>, <<callG, callX>>, <<callG, callX, callH>> >>
        /\ ctxs = <<Background>>
        /\ containers = << >>
        /\ ctxHist = << << >> >>
        /\ ret = NoCall
        /\ procs = << >>
        /\ lines = << >>
        /\ cell = CellValue0

Returned(p) == procs[p].pc = "done"

InProgress == Cardinality({ p \in 1..Len(procs) : ~Returned(p) })

\* go h.WithAttrs(as), up to the call of cloneAppend: clone := *h, the static
\* fields written, the closure made.  began: the handlers there were.
GoWithAttrs(h, as) ==
    /\ Len(handlers) + InProgress < MaxDeriveHandlers
    /\ procs' = Append(procs,
           [op |-> "WithAttrs", h |-> h, as |-> Snapshot(as), name |-> "", pc |-> "cloneSlice",
            clone |-> handlers[h], step |-> WithAttrsStep(as), slice |-> NilSlice,
            began |-> Len(handlers), nh |-> 0])
    /\ UNCHANGED <<handlers, heap, encoders, hist, ctxs, containers, ctxHist, ret, lines, cell>>

\* go h.WithGroup(name), up to the call of cloneAppend: clone := *h, the
\* encoder cloned and the key prepared, the closure made
GoWithGroup(h, name) ==
    /\ Len(handlers) + InProgress < MaxDeriveHandlers
    /\ encoders' = Append(encoders, PrepareKey(encoders[handlers[h].encoder], name))
    /\ procs' = Append(procs,
           [op |-> "WithGroup", h |-> h, as |-> << >>, name |-> name, pc |-> "cloneSlice",
            clone |-> [handlers[h] EXCEPT !.encoder = Len(encoders) + 1],
            step |-> GroupStep(name), slice |-> NilSlice,
            began |-> Len(handlers), nh |-> 0])
    /\ UNCHANGED <<handlers, heap, hist, ctxs, containers, ctxHist, ret, lines, cell>>

\* cloneAppend: c := cloneSlice(slice, len(values))
StepCloneSlice(p) ==
    /\ procs[p].pc = "cloneSlice"
    /\ LET c == cloneSlice(heap, handlers[procs[p].h].attrBuilders, 1) IN
         /\ heap' = c.heap
         /\ procs' = [procs EXCEPT ![p].pc = "append", ![p].slice = c.slice]
    /\ UNCHANGED <<handlers, encoders, hist, ctxs, containers, ctxHist, ret, lines, cell>>

\* cloneAppend: return append(c, values...)
StepAppend(p) ==
    /\ procs[p].pc = "append"
    /\ LET a == GoAppend(heap, procs[p].slice, <<procs[p].step>>) IN
         /\ heap' = a.heap
         /\ procs' = [procs EXCEPT ![p].pc = "return", ![p].slice = a.slice]
    /\ UNCHANGED <<handlers, encoders, hist, ctxs, containers, ctxHist, ret, lines, cell>>

\* clone.attrBuilders = ...; return &clone
StepReturn(p) ==
    /\ procs[p].pc = "return"
    /\ handlers' = Append(handlers, [procs[p].clone EXCEPT !.attrBuilders = procs[p].slice])
    /\ hist' = Append(hist, Append(hist[procs[p].h],
                   [op |-> procs[p].op, as |-> procs[p].as, name |-> procs[p].name]))
    /\ procs' = [procs EXCEPT ![p].pc = "done", ![p].nh = Len(handlers) + 1]
    /\ UNCHANGED <<heap, encoders, ctxs, containers, ctxHist, ret, lines, cell>>

NextDerive ==
    \/ \E h \in HandlerIds : GoWithAttrs(h, <<AttrY, AttrE, AttrP>>)
    \/ \E h \in HandlerIds : GoWithGroup(h, "G")
    \/ \E p \in 1..Len(procs) : StepCloneSlice(p)
    \/ \E p \in 1..Len(procs) : StepAppend(p)
    \/ \E p \in 1..Len(procs) : StepReturn(p)

SpecDerive == InitDerive /\ [][NextDerive]_vars

-----------------------------------------------------------------------------
(* Reading an emitted line: each field with the keys of the records open   *)
(* around it, outermost first.                                             *)

RECURSIVE FieldsLoop(_, _, _, _)
FieldsLoop(line, i, stack, acc) ==
    IF i > Len(line) THEN acc
    ELSE LET t == line[i] IN
         CASE t.t = "open" -> FieldsLoop(line, i + 1, Append(stack, t.key), acc)
           [] t.t = "close" -> FieldsLoop(line, i + 1, SubSeq(stack, 1, Len(stack) - 1), acc)
           [] OTHER -> FieldsLoop(line, i + 1, stack, Append(acc, [path |-> stack, tok |-> t]))

FieldsOf(line) == FieldsLoop(line, 1, << >>, << >>)

TopKey(f) == IF Len(f.path) = 0 THEN f.tok.key ELSE f.path[1]

IsAttrField(f) == TopKey(f) \notin PreparedKeys

\* the fields of the bound and the record's attributes, as (path, key), in line order
AttrFieldPaths(line) ==
    LET fs == SelectSeq(FieldsOf(line), IsAttrField)
    IN  [i \in 1..Len(fs) |-> [path |-> fs[i].path, key |-> fs[i].tok.key]]

HasKey(line, key) == \E i \in 1..Len(line) : line[i].key = key

Handled == ret.op = "Handle"

-----------------------------------------------------------------------------
(* What the derivation history of a handler asks of a line.                *)

RECURSIVE Leaves(_, _, _)
\* the (path, key) of every attribute of as[i..] that is not a group, groups entered
Leaves(path, as, i) ==
    IF i > Len(as) THEN << >>
    ELSE LET v == Resolve(as[i].Value)
             here == IF v.Kind = "Group" THEN Leaves(Append(path, as[i].Key), v.G, 1)
                     ELSE <<[path |-> path, key |-> as[i].Key]>>
         IN  here \o Leaves(path, as, i + 1)

RECURSIVE ExpectedPaths(_, _, _)
\* calls: the WithAttrs and WithGroup calls from the base handler, first call first
ExpectedPaths(calls, groups, recordAttrs) ==
    IF Len(calls) = 0 THEN Leaves(groups, recordAttrs, 1)
    ELSE IF Head(calls).op = "WithAttrs"
    THEN Leaves(groups, Head(calls).as, 1) \o ExpectedPaths(Tail(calls), groups, recordAttrs)
    ELSE ExpectedPaths(Tail(calls), Append(groups, Head(calls).name), recordAttrs)

\* C1: Handle emits each statically bound attribute inside exactly the groups
\* entered (WithGroup) before it was bound, the first-entered group outermost,
\* and the record's own attributes inside all entered groups, after the static
\* attributes bound at that innermost level.
C1_Nesting ==
    Handled => AttrFieldPaths(ret.line) = ExpectedPaths(hist[ret.h], << >>, ret.r.Attrs)

\* WithAttrs(X), WithGroup(G), WithAttrs(Y, ...), then a record with attribute Z:
\* X at top level, G containing Y then Z
C1_Witness ==
    /\ Handled
    /\ hist[ret.h] = << [op |-> "WithAttrs", as |-> <<AttrX>>, name |-> ""],
                        [op |-> "WithGroup", as |-> << >>, name |-> "G"],
                        [op |-> "WithAttrs", as |-> <<AttrY, AttrE, AttrP>>, name |-> ""] >>
    /\ ret.r.Attrs = <<AttrE, AttrZ>>
    /\ AttrFieldPaths(ret.line) =
         << [path |-> << >>, key |-> "X"],
            [path |-> <<"G">>, key |-> "Y"],
            [path |-> <<"G", "P">>, key |-> "Q"],
            [path |-> <<"G">>, key |-> "Z"] >>

\* C2: WithAttrs and WithGroup never change their receiver: via a handler
\* Handle was called on, Handle emits the same line and returns the same
\* error, and the handler's fields, step sequence and encoder state are the
\* ones seen at that call, after any number of derivations made since.
C2_ReceiverUnchanged ==
    Handled =>
        /\ Look(ret.h) = ret.seen
        /\ LET o == Handle(handlers[ret.h], ret.c, ret.r, ret.written)
           IN  o.line = ret.line /\ o.err = ret.err

\* Handle was called via handler 2 before handler 3 was derived from it (with
\* WithGroup) and handler 4 from handler 3
C2_Witness ==
    /\ Handled /\ ret.h = 2 /\ Len(handlers) = 4
    /\ ret.nh = 2
    /\ hist[3] = Append(hist[2], [op |-> "WithGroup", as |-> << >>, name |-> "G"])
    /\ Len(hist[4]) = 3 /\ SubSeq(hist[4], 1, 2) = hist[3]
    /\ ret.r.Attrs = <<AttrE, AttrZ>>

RECURSIVE EmptyGroupKeys(_, _)
\* the keys of the group attributes with zero children in as[i..], at any depth
EmptyGroupKeys(as, i) ==
    IF i > Len(as) THEN {}
    ELSE LET v == Resolve(as[i].Value)
             here == IF v.Kind # "Group" THEN {}
                     ELSE IF Len(v.G) = 0 THEN {as[i].Key}
                     ELSE EmptyGroupKeys(v.G, 1)
         IN  here \cup EmptyGroupKeys(as, i + 1)

RECURSIVE BoundAttrs(_)
\* the attributes bound by the WithAttrs calls of a history, in order
BoundAttrs(calls) ==
    IF Len(calls) = 0 THEN << >> ELSE Head(calls).as \o BoundAttrs(Tail(calls))

\* C10: a group attribute with zero children is never written, as a record
\* attribute, as a bound attribute or as a child of a group: no field and no
\* nested record of the line has its key, and it reports no error.
C10_EmptyGroupOmitted ==
    Handled =>
        /\ \A k \in EmptyGroupKeys(BoundAttrs(hist[ret.h]) \o ret.r.Attrs, 1) :
               ~HasKey(ret.line, k)
        /\ ret.err = NoError

\* a line with an empty group as record attribute, as bound attribute and as
\* child of the bound group P, whose other child Q is written
C10_Witness ==
    /\ Handled
    /\ ret.r.Attrs = <<AttrE, AttrZ>>
    /\ hist[ret.h] = << [op |-> "WithAttrs", as |-> <<AttrY, AttrE, AttrP>>, name |-> ""] >>
    /\ AttrFieldPaths(ret.line) =
         << [path |-> << >>, key |-> "Y"],
            [path |-> <<"P">>, key |-> "Q"],
            [path |-> << >>, key |-> "Z"] >>
    /\ ~HasKey(ret.line, "E")

-----------------------------------------------------------------------------
(* What the derivation history of a context asks of a line.                *)

RECURSIVE LabelCalls(_)
\* the label lists of the AddLabels calls of a history, first call first
LabelCalls(calls) ==
    IF Len(calls) = 0 THEN << >>
    ELSE IF Head(calls).op = "AddLabels"
    THEN <<Head(calls).labels>> \o LabelCalls(Tail(calls))
    ELSE LabelCalls(Tail(calls))

RECURSIVE Flatten(_)
Flatten(lists) == IF Len(lists) = 0 THEN << >> ELSE Head(lists) \o Flatten(Tail(lists))

\* the pairs on the path from the root to context c, root first
PathLabels(c) == Flatten(LabelCalls(ctxHist[c]))

LabelKeys(labels) == { labels[i].Key : i \in 1..Len(labels) }

\* the value of the last pair of labels with key k
LastValue(labels, k) ==
    LET last == CHOOSE i \in 1..Len(labels) :
                    /\ labels[i].Key = k
                    /\ \A j \in (i + 1)..Len(labels) : labels[j].Key # k
    IN  labels[last].Value

RECURSIVE NearestLeaf(_, _, _)
\* the value given to k by the call nearest the leaf among lists[1..n]
NearestLeaf(lists, n, k) ==
    IF k \in LabelKeys(lists[n]) THEN LastValue(lists[n], k)
    ELSE NearestLeaf(lists, n - 1, k)

\* the pairs written into the labels object of a line, in order
LabelsObject(line) ==
    LET fs == SelectSeq(FieldsOf(line), LAMBDA f : f.path = <<fieldLabels>>)
    IN  [i \in 1..Len(fs) |-> NewLabel(fs[i].tok.key, fs[i].tok.S)]

\* C3: when a key occurs in several label nodes on the path from root to leaf,
\* the value written last for it into the labels object of the line is the
\* one of the node nearest the leaf; the object holds no other keys.
C3_Shadowing ==
    Handled =>
        LET lists == LabelCalls(ctxHist[ret.c])
            obj == LabelsObject(ret.line)
        IN  /\ LabelKeys(obj) = LabelKeys(Flatten(lists))
            /\ \A k \in LabelKeys(obj) : LastValue(obj, k) = NearestLeaf(lists, Len(lists), k)

\* AddLabels(AddLabels(ctx, {a:1, b:2}), {b:9, c:3}) gives {a:1, b:9, c:3}
C3_Witness ==
    /\ Handled
    /\ LabelCalls(ctxHist[ret.c]) =
         << <<NewLabel("a", "1"), NewLabel("b", "2")>>,
            <<NewLabel("b", "9"), NewLabel("c", "3")>> >>
    /\ LET obj == LabelsObject(ret.line)
       IN  /\ LabelKeys(obj) = {"a", "b", "c"}
           /\ LastValue(obj, "a") = "1"
           /\ LastValue(obj, "b") = "9"
           /\ LastValue(obj, "c") = "3"

\* C4: Iterate on a context's container calls the visitor once per pair on the
\* path from the root node to the context's node, the root's pairs first and
\* each node's pairs in the order given to AddLabels; pairs of other branches
\* are not visited, and the nil container gives no visit.
C4_IterateOrder ==
    /\ \A c \in CtxIds : Iterate(labelsFromContext(c)) = PathLabels(c)
    /\ Iterate(0) = << >>

\* two contexts derived from the same one with different labels: Iterate on
\* the second visits its own pairs only
C4_Witness ==
    /\ Len(ctxs) = 3
    /\ ctxs[2].parent = 1 /\ ctxs[3].parent = 1
    /\ ctxs[2].key = "labels" /\ ctxs[3].key = "labels"
    /\ containers[ctxs[2].labels].Labels = <<NewLabel("a", "1"), NewLabel("b", "2")>>
    /\ Iterate(labelsFromContext(3)) = <<NewLabel("b", "9"), NewLabel("c", "3")>>

\* C5: Handle writes the labels object if and only if a pair exists on the
\* context's label chain; when it does, the object is opened once, holds one
\* field per pair and is closed once.
C5_LabelsPresence ==
    Handled =>
        LET n == Len(PathLabels(ret.c))
            opens == { i \in 1..Len(ret.line) : ret.line[i] = Open(fieldLabels) }
        IN  IF n = 0 THEN ~HasKey(ret.line, fieldLabels)
            ELSE /\ Cardinality({ i \in 1..Len(ret.line) : ret.line[i].key = fieldLabels }) = 1
                 /\ Cardinality(opens) = 1
                 /\ \A i \in opens :
                        /\ i + n + 1 <= Len(ret.line)
                        /\ \A j \in (i + 1)..(i + n) : ret.line[j].t = "field"
                        /\ ret.line[i + n + 1] = Close

\* a context whose only AddLabels call supplied zero pairs: no labels key
C5_Witness ==
    /\ Handled
    /\ LabelCalls(ctxHist[ret.c]) = << << >> >>
    /\ labelsFromContext(ret.c) # 0
    /\ ~HasKey(ret.line, fieldLabels)

RECURSIVE LastTrace(_)
\* the Trace of the last Trace.Context call of a history, the zero Trace without one
LastTrace(calls) ==
    IF Len(calls) = 0 THEN ZeroTrace
    ELSE IF calls[Len(calls)].op = "Trace" THEN calls[Len(calls)].trace
    ELSE LastTrace(SubSeq(calls, 1, Len(calls) - 1))

\* the token of the only top-level field of the line with this key
TopField(line, key) ==
    LET fs == FieldsOf(line)
    IN  fs[CHOOSE i \in 1..Len(fs) : fs[i].path = << >> /\ fs[i].tok.key = key].tok

\* C6: the trace and trace-sampled keys are in the line if and only if the
\* context carries a Trace with a non-empty ID; the span-id key if and only if
\* the ID and the SpanID are both non-empty; the sampled value is Trace.Sampled.
C6_TraceKeys ==
    Handled =>
        LET trace == LastTrace(ctxHist[ret.c]) IN
        /\ HasKey(ret.line, fieldTraceID) <=> trace.ID # ""
        /\ HasKey(ret.line, fieldTraceSampled) <=> trace.ID # ""
        /\ HasKey(ret.line, fieldTraceSpanID) <=> (trace.ID # "" /\ trace.SpanID # "")
        /\ trace.ID # "" =>
               /\ TopField(ret.line, fieldTraceSampled).ty = "bool"
               /\ TopField(ret.line, fieldTraceSampled).B = trace.Sampled
        /\ (trace.ID # "" /\ trace.SpanID # "") =>
               TopField(ret.line, fieldTraceSpanID).S = trace.SpanID

\* a Trace with a span id and no trace id writes none of the three keys
C6_Witness ==
    /\ Handled
    /\ LastTrace(ctxHist[ret.c]) = Trace("", "span", TRUE)
    /\ ~HasKey(ret.line, fieldTraceID)
    /\ ~HasKey(ret.line, fieldTraceSpanID)
    /\ ~HasKey(ret.line, fieldTraceSampled)

\* C7 as stated: with a non-empty trace id, the trace field is the configured
\* namespace, "/traces/", the trace id ("proj/traces/abc").
C7_TraceValueAsStated ==
    (Handled /\ LastTrace(ctxHist[ret.c]).ID # "") =>
        TopField(ret.line, fieldTraceID).S =
            handlers[ret.h].config.ProjectID \o "/traces/" \o LastTrace(ctxHist[ret.c]).ID

\* C7, amended: with a non-empty trace id, the trace field is "projects/", the
\* configured project id, "/traces/", the trace id ("projects/proj/traces/abc").
C7_TraceValue ==
    (Handled /\ LastTrace(ctxHist[ret.c]).ID # "") =>
        /\ TopField(ret.line, fieldTraceID).ty = "string"
        /\ TopField(ret.line, fieldTraceID).S =
               "projects/" \o handlers[ret.h].config.ProjectID \o "/traces/"
                   \o LastTrace(ctxHist[ret.c]).ID

C7_Witness ==
    /\ Handled
    /\ handlers[ret.h].config.ProjectID = "proj"
    /\ LastTrace(ctxHist[ret.c]).ID = "abc"
    /\ TopField(ret.line, fieldTraceID).S = "projects/proj/traces/abc"

-----------------------------------------------------------------------------
(* Levels.                                                                 *)

\* the severity of a level: a step function with steps at Info, Warn, Error
Bucket(level) ==
    IF level < LevelInfo THEN "DEBUG"
    ELSE IF level < LevelWarn THEN "INFO"
    ELSE IF level < LevelError THEN "WARN"
    ELSE "ERROR"

Rank(severity) ==
    CASE severity = "DEBUG" -> 0
      [] severity = "INFO" -> 1
      [] severity = "WARN" -> 2
      [] severity = "ERROR" -> 3

\* the severity addSeverity writes for a record of this level
SeverityOf(level) == addSeverity(NewLine, Record("level", Time0, level, 1, << >>))[1].S

\* C8: the severity Handle writes is a monotonic step function of the record's
\* level, whatever minimum level is configured: DEBUG below Info, INFO below
\* Warn, WARN below Error, ERROR from Error on; one severity per record.
C8_Severity ==
    /\ Handled =>
           /\ Cardinality({ i \in 1..Len(ret.line) : ret.line[i].key = fieldSeverity }) = 1
           /\ TopField(ret.line, fieldSeverity).ty = "string"
           /\ TopField(ret.line, fieldSeverity).S = Bucket(ret.r.Level)
    /\ \A l1, l2 \in Levels : l1 <= l2 => Rank(SeverityOf(l1)) <= Rank(SeverityOf(l2))

\* a record below Debug, via a handler whose minimum level is Error, is DEBUG
C8_Witness ==
    /\ Handled
    /\ ret.r.Level = LevelDebug - 1
    /\ handlers[ret.h].config.Level = Leveler(LevelError)
    /\ TopField(ret.line, fieldSeverity).S = "DEBUG"

\* the minimum level of the base handler's configuration
MinLevel ==
    IF handlers[1].config.Level.set THEN handlers[1].config.Level.level ELSE LevelInfo

\* C9: Enabled(level) is true if and only if level >= the configured minimum,
\* the Info level when Config.Level is nil; it is monotonic in level, leaves
\* the handler as it was, and answers the same on every derived handler.
C9_Enabled ==
    /\ ret.op = "Enabled" =>
           /\ ret.enabled <=> ret.level >= MinLevel
           /\ Look(ret.h) = ret.seen
    /\ \A h \in HandlerIds : \A l1, l2 \in Levels :
           (Enabled(handlers[h], l1) /\ l2 >= l1) => Enabled(handlers[h], l2)
    /\ \A h \in HandlerIds : \A l \in Levels :
           Enabled(handlers[h], l) <=> Enabled(handlers[1], l)

\* on a handler derived from a base handler with no configured level, Enabled
\* answers true at the Info level
C9_Witness ==
    /\ ret.op = "Enabled" /\ ret.h = 2
    /\ ~handlers[1].config.Level.set
    /\ ret.level = LevelInfo
    /\ ret.enabled

-----------------------------------------------------------------------------
(* Failures.                                                               *)

\* the calls Handle makes on the line before addAttrs
FixedFields(h, c, r) ==
    addLabels(c, addTrace(h, c,
        addSourceLocation(addSeverity(addTimestamp(addMessage(NewLine, r), r), r), r)))

\* the calls addAttrs made on the line of the last Handle
AttrsPart ==
    SubSeq(ret.line, Len(FixedFields(handlers[ret.h], ret.c, ret.r)) + 1, Len(ret.line))

PathsOf(tokens) ==
    LET fs == FieldsOf(tokens)
    IN  [i \in 1..Len(fs) |-> [path |-> fs[i].path, key |-> fs[i].tok.key]]

\* the error serializing attribute a alone gives
FailureOf(a) == addAttr(NewLine, a).err

RECURSIVE Failures(_, _)
\* the errors of the attributes of as[i..] that fail, groups entered, in order
Failures(as, i) ==
    IF i > Len(as) THEN << >>
    ELSE LET v == Resolve(as[i].Value)
             here == IF v.Kind = "Group" THEN Failures(v.G, 1) ELSE FailureOf(as[i])
         IN  here \o Failures(as, i + 1)

RECURSIVE OKLeaves(_, _, _)
\* the (path, key) of every attribute of as[i..] that is no group and does not fail
OKLeaves(path, as, i) ==
    IF i > Len(as) THEN << >>
    ELSE LET v == Resolve(as[i].Value)
             here == IF v.Kind = "Group" THEN OKLeaves(Append(path, as[i].Key), v.G, 1)
                     ELSE IF FailureOf(as[i]) # NoError THEN << >>
                     ELSE <<[path |-> path, key |-> as[i].Key]>>
         IN  here \o OKLeaves(path, as, i + 1)

RECURSIVE ExpectedOKPaths(_, _, _)
\* ExpectedPaths without the attributes that fail
ExpectedOKPaths(cs, groups, recordAttrs) ==
    IF Len(cs) = 0 THEN OKLeaves(groups, recordAttrs, 1)
    ELSE IF Head(cs).op = "WithAttrs"
    THEN OKLeaves(groups, Head(cs).as, 1) \o ExpectedOKPaths(Tail(cs), groups, recordAttrs)
    ELSE ExpectedOKPaths(Tail(cs), Append(groups, Head(cs).name), recordAttrs)

RECURSIVE StepErrs(_)
\* the errors the steps of a handler hold, first step first
StepErrs(steps) ==
    IF Len(steps) = 0 THEN NoError ELSE Join(Head(steps).err, StepErrs(Tail(steps)))

SinkError == IF ret.written THEN NoError ELSE <<"error writing">>

Occurrences(seq, x) == Cardinality({ i \in 1..Len(seq) : seq[i] = x })

\* C11: no emitted line holds a group with zero fields: every nested record
\* opened for a WithGroup step or a group attribute receives at least one
\* field or nested record before it is closed.
C11_NoEmptyGroup ==
    Handled =>
        \A i \in 1..Len(AttrsPart) :
            AttrsPart[i].t = "open" => AttrsPart[i + 1].t # "close"

\* C12: the failures of a record's attributes accumulate and stop nothing:
\* every attribute that does not fail, bound or of the record, is in the line
\* at its place, the line is ended (a failing sink is reported), and Handle
\* returns the steps' errors, every failure of the record's attributes in
\* order and the sink's error, joined.
C12_Accumulated ==
    Handled =>
        /\ PathsOf(AttrsPart) = ExpectedOKPaths(hist[ret.h], << >>, ret.r.Attrs)
        /\ ret.err = Join(StepErrs(ret.seen.steps),
                          Join(Failures(ret.r.Attrs, 1), SinkError))
        /\ Failures(ret.r.Attrs, 1) # << >> => ret.err # NoError

\* via WithGroup(G), a record whose first and last attributes fail, on a
\* failing sink: Correct is written inside G and the three errors are joined
C12_Witness ==
    /\ Handled
    /\ hist[ret.h] = << [op |-> "WithGroup", as |-> << >>, name |-> "G"] >>
    /\ ret.r.Attrs = <<AttrErroring, AttrCorrect, AttrInvalid>>
    /\ ~ret.written
    /\ ret.err = <<"cannot be marshaled", "bad kind: <unknown slog.Kind>", "error writing">>
    /\ AttrsPart = <<Open("G"), Field("Correct", "string", "correct", 0, FALSE), Close>>

\* C13: when an attribute given to WithAttrs fails to serialize, every Handle
\* via the derived handler and via the handlers derived from it returns a
\* non-nil error that includes that failure.
C13_DeferredFailure ==
    Handled =>
        LET failures == Failures(BoundAttrs(hist[ret.h]), 1)
        IN  failures # << >> =>
                /\ ret.err # NoError
                /\ \A i \in 1..Len(failures) : Occurrences(ret.err, failures[i]) > 0

ValidKinds ==
    { "Group", "String", "Int64", "Uint64", "Float64", "Bool", "Duration", "Time", "Any" }

RECURSIVE InvalidKeys(_, _)
\* the keys of the attributes of as[i..], groups entered, whose resolved kind is no kind
InvalidKeys(as, i) ==
    IF i > Len(as) THEN {}
    ELSE LET v == Resolve(as[i].Value)
             here == IF v.Kind = "Group" THEN InvalidKeys(v.G, 1)
                     ELSE IF v.Kind \in ValidKinds THEN {}
                     ELSE {as[i].Key}
         IN  here \cup InvalidKeys(as, i + 1)

\* C14: an attribute of the record whose resolved kind is none of group,
\* string, int64, uint64, float64, bool, duration, time, any is not written,
\* Handle returns an error that says "bad kind" with the kind's String(), and
\* the record's other attributes that do not fail are written.
C14_BadKind ==
    (Handled /\ InvalidKeys(ret.r.Attrs, 1) # {}) =>
        /\ \A k \in InvalidKeys(ret.r.Attrs, 1) : ~HasKey(AttrsPart, k)
        /\ Occurrences(ret.err, "bad kind: " \o KindString(OtherValue)) =
               Cardinality(InvalidKeys(ret.r.Attrs, 1))
        /\ LET ok == OKLeaves(<< >>, ret.r.Attrs, 1)
               written == PathsOf(AttrsPart)
           IN  \A i \in 1..Len(ok) : \E j \in 1..Len(written) :
                   /\ written[j].key = ok[i].key
                   /\ SubSeq(written[j].path, Len(written[j].path) - Len(ok[i].path) + 1,
                             Len(written[j].path)) = ok[i].path

\* the record of the test: Correct written, Invalid absent, the error returned
C14_Witness ==
    /\ Handled /\ ret.h = 1 /\ ret.written
    /\ ret.r.Attrs = <<AttrErroring, AttrCorrect, AttrInvalid>>
    /\ HasKey(AttrsPart, "Correct")
    /\ ~HasKey(AttrsPart, "Invalid")
    /\ Occurrences(ret.err, "bad kind: <unknown slog.Kind>") = 1

RECURSIVE TopKeysLoop(_, _, _, _)
TopKeysLoop(line, i, depth, acc) ==
    IF i > Len(line) THEN acc
    ELSE LET t == line[i]
             top == IF depth = 0 THEN Append(acc, t.key) ELSE acc
         IN  CASE t.t = "open" -> TopKeysLoop(line, i + 1, depth + 1, top)
               [] t.t = "close" -> TopKeysLoop(line, i + 1, depth - 1, acc)
               [] OTHER -> TopKeysLoop(line, i + 1, depth, top)

\* the keys of the fields and nested records at the top level of a line, in order
TopLevelKeys(line) == TopKeysLoop(line, 1, 0, << >>)

FixedKeys ==
    { fieldMessage, fieldTimestamp, fieldSeverity, fieldSourceLocation, fieldTraceID,
      fieldTraceSpanID, fieldTraceSampled, fieldLabels }

\* C16: in every emitted line each fixed field key occurs at most once at the
\* top level, whatever keys the caller chose for the record's and the bound
\* attributes.
C16_FixedKeysOnce ==
    Handled => \A k \in FixedKeys : Occurrences(TopLevelKeys(ret.line), k) <= 1

Opens(line, n) == Cardinality({ i \in 1..n : line[i].t = "open" })
Closes(line, n) == Cardinality({ i \in 1..n : line[i].t = "close" })

\* every closing closes a record that is open, and none is left open
Balanced(line) ==
    /\ \A n \in 0..Len(line) : Closes(line, n) <= Opens(line, n)
    /\ Closes(line, Len(line)) = Opens(line, Len(line))

\* C17: a failure of the sink's Write is in the error Handle returns for that
\* record, and Handle leaves the handler's fields, steps and encoder as they
\* were; the line and the attribute errors are the ones of the same call on a
\* sink that takes the line, so a later Handle on such a sink emits the whole
\* line and returns what it would have returned without the failure before.
C17_SinkFailure ==
    Handled =>
        /\ Look(ret.h) = ret.seen
        /\ ~ret.written => (ret.err # NoError /\ ret.err[Len(ret.err)] = "error writing")
        /\ LET o == Handle(handlers[ret.h], ret.c, ret.r, TRUE)
           IN  ret.line = o.line /\ ret.err = Join(o.err, SinkError)
        /\ ret.written =>
               /\ Occurrences(ret.err, "error writing") = 0
               /\ Balanced(ret.line)
               /\ SubSeq(ret.line, 1, Len(ret.line) - Len(AttrsPart)) =
                      FixedFields(handlers[ret.h], ret.c, ret.r)
               /\ PathsOf(AttrsPart) = ExpectedOKPaths(hist[ret.h], << >>, ret.r.Attrs)

\* the sink failed for a record, then took the next one via the same handler
C17_Witness ==
    /\ Handled /\ ret.written
    /\ ret.afterFailure
    /\ ret.r.Attrs = << >>
    /\ ret.err = NoError
    /\ ret.line = FixedFields(handlers[ret.h], ret.c, ret.r)

RECURSIVE GroupsOpened(_, _)
\* the number of group attributes of as[i..] with at least one attribute, groups entered
GroupsOpened(as, i) ==
    IF i > Len(as) THEN 0
    ELSE LET v == Resolve(as[i].Value)
             here == IF v.Kind = "Group" /\ Len(v.G) > 0 THEN 1 + GroupsOpened(v.G, 1) ELSE 0
         IN  here + GroupsOpened(as, i + 1)

GroupSteps(cs) == Cardinality({ i \in 1..Len(cs) : cs[i].op = "WithGroup" })

\* C19: in every line the nested records are balanced: a closing always closes
\* the record opened last, none is left open at the end, and exactly one
\* record was opened for the source location, for the labels if any, for each
\* WithGroup step and for each group attribute with children, also when
\* attributes fail; the line is ended once (a failing sink reports once).
C19_Balanced ==
    Handled =>
        /\ Balanced(ret.line)
        /\ Opens(ret.line, Len(ret.line)) =
               1 + (IF Len(PathLabels(ret.c)) > 0 THEN 1 ELSE 0) + GroupSteps(hist[ret.h])
                 + GroupsOpened(BoundAttrs(hist[ret.h]) \o ret.r.Attrs, 1)
        /\ Occurrences(ret.err, "error writing") = IF ret.written THEN 0 ELSE 1

\* inside WithGroup(G) the group B, whose first child fails: B and G are closed
C19_Witness ==
    /\ Handled
    /\ hist[ret.h] = << [op |-> "WithGroup", as |-> << >>, name |-> "G"] >>
    /\ ret.r.Attrs = <<AttrB, AttrMessage>>
    /\ ret.err = <<"cannot be marshaled", "error writing">>
    /\ AttrsPart = << Open("G"), Open("B"), Field("Q", "bool", "", 0, TRUE), Open("N"), Close,
                      Close, Field(fieldMessage, "string", "shadow", 0, FALSE), Close >>

-----------------------------------------------------------------------------
(* The order of the steps.                                                 *)

RECURSIVE Replay(_, _, _)
\* the calls made on l when steps[1] runs first and delegates to steps[2], and
\* so on, the last of them delegating to the writing of the record's attributes
Replay(steps, l, r) ==
    IF Len(steps) = 0 THEN addAttrsRaw(l, r).l
    ELSE IF Head(steps).kind = "attrs"
    THEN Replay(Tail(steps), AddStaticFields(l, Head(steps).staticFields), r)
    ELSE EndRecord(Replay(Tail(steps), StartRecord(l, Head(steps).name), r))

Reverse(seq) == [i \in 1..Len(seq) |-> seq[Len(seq) + 1 - i]]

\* C18 as stated: the step appended last runs first (outermost) and delegates
\* to the one appended before it, down to the step appended first, which
\* delegates to the writing of the record's attributes.
C18_LastAppendedOutermost ==
    Handled => AttrsPart = Replay(Reverse(ret.seen.steps), NewLine, ret.r)

\* C18, amended: the step appended first runs first (outermost) and delegates
\* to the one appended after it, up to the step appended last, which delegates
\* to the writing of the record's attributes; without steps the record's
\* attributes are written directly.
C18_FirstAppendedOutermost ==
    Handled =>
        /\ AttrsPart = Replay(ret.seen.steps, NewLine, ret.r)
        /\ Len(ret.seen.steps) = 0 => AttrsPart = addAttrsRaw(NewLine, ret.r).l

\* WithGroup(G) then WithAttrs(X): the later step's X is written inside G
C18_Witness ==
    /\ Handled
    /\ hist[ret.h] = << [op |-> "WithGroup", as |-> << >>, name |-> "G"],
                        [op |-> "WithAttrs", as |-> <<AttrX>>, name |-> ""] >>
    /\ ret.seen.steps = <<GroupStep("G"), WithAttrsStep(<<AttrX>>)>>
    /\ AttrsPart = << Open("G"), Field("X", "int64", "", 1, FALSE),
                      Field("Z", "string", "z", 0, FALSE), Close >>

-----------------------------------------------------------------------------
(* Concurrent calls.                                                       *)

Done(p) == procs[p].pc = "done"

\* the field only the record of handler h has
IdField(h) == Field("id", "int64", "", h, FALSE)

StepOf(c) == IF c.op = "WithAttrs" THEN WithAttrsStep(c.as) ELSE GroupStep(c.name)

StepsOf(cs) == [i \in 1..Len(cs) |-> StepOf(cs[i])]

StepsIn(h) == Elements(heap, handlers[h].attrBuilders)

\* C20: whatever the interleaving of the steps of WithAttrs and WithGroup
\* calls, on one handler or on several, the steps of every handler are the
\* steps of its derivation calls from the base handler, one per call and in
\* call order; a derived handler's steps are its receiver's followed by the
\* one step of its call; no two handlers have the same backing array.
C20_OwnSteps ==
    /\ \A h \in HandlerIds : StepsIn(h) = StepsOf(hist[h])
    /\ \A p \in 1..Len(procs) :
           Returned(p) => StepsIn(procs[p].nh) = Append(StepsIn(procs[p].h), procs[p].step)
    /\ \A g, h \in HandlerIds :
           (g # h /\ handlers[g].attrBuilders.arr # 0) =>
               handlers[g].attrBuilders.arr # handlers[h].attrBuilders.arr

\* WithAttrs and WithGroup called on handler 4 (three steps), each begun
\* before the other returned: handlers 5 and 6 have its steps and their own
C20_Witness ==
    /\ Len(procs) = 2 /\ Returned(1) /\ Returned(2)
    /\ procs[1].h = 4 /\ procs[2].h = 4
    /\ procs[1].began = 4 /\ procs[2].began = 4
    /\ procs[1].op # procs[2].op
    /\ Len(StepsIn(4)) = 3
    /\ StepsIn(procs[1].nh) = Append(StepsIn(4), procs[1].step)
    /\ StepsIn(procs[2].nh) = Append(StepsIn(4), procs[2].step)

-----------------------------------------------------------------------------
(* Values.                                                                 *)

RECURSIVE BoundFields(_)
\* the fields and records the attributes bound by the WithAttrs calls of a
\* history serialize to, each with the values it had when its call was made
BoundFields(cs) ==
    IF Len(cs) = 0 THEN << >>
    ELSE (IF Head(cs).op = "WithAttrs" THEN staticLoop(NewLine, Head(cs).as, 1, NoError).l
          ELSE << >>) \o BoundFields(Tail(cs))

RECURSIVE ExpectedLine(_, _, _)
\* the calls on l a history asks for: the fields bound by each WithAttrs call
\* as serialized from the values of the time of the call, inside the records of
\* the WithGroup calls before it, then the record's attributes
ExpectedLine(cs, l, r) ==
    IF Len(cs) = 0 THEN addAttrsRaw(l, r).l
    ELSE IF Head(cs).op = "WithAttrs"
    THEN ExpectedLine(Tail(cs), staticLoop(l, Head(cs).as, 1, NoError).l, r)
    ELSE EndRecord(ExpectedLine(Tail(cs), StartRecord(l, Head(cs).name), r))

\* C21: the static fields of every line emitted via a handler derived with
\* WithAttrs are the ones serialized from the values the attributes had when
\* WithAttrs was called, whatever the caller's variable holds when Handle is
\* called and whatever a LogValuer on it would return then; every record
\* emitted via the handler carries all of them.
C21_SerializedOnce ==
    Handled =>
        /\ AttrsPart = ExpectedLine(hist[ret.h], NewLine, ret.r)
        /\ LET bound == BoundFields(hist[ret.h])
           IN  \A i \in 1..Len(bound) : Occurrences(AttrsPart, bound[i]) > 0

\* V bound when the variable held "v0", Handle called when it held "v1": the
\* line has V = "v0", at the top and in the group P
C21_Witness ==
    /\ Handled
    /\ hist[ret.h] = << [op |-> "WithAttrs",
                         as |-> << Attr(CellKey, LogValuerValue(StringValue("v0"))),
                                   Attr("P", GroupValue(
                                       << Attr(CellKey, LogValuerValue(StringValue("v0"))),
                                          AttrX >>)) >>,
                         name |-> ""] >>
    /\ ret.cell = StringValue("v1")
    /\ ret.r.Message = "two"
    /\ AttrsPart = << Field(CellKey, "string", "v0", 0, FALSE), Open("P"),
                      Field(CellKey, "string", "v0", 0, FALSE),
                      Field("X", "int64", "", 1, FALSE), Close,
                      Field("Z", "string", "z", 0, FALSE) >>

\* the fields of a line under a key
FieldsUnder(line, key) == SelectSeq(line, LAMBDA t : t.t = "field" /\ t.key = key)

\* a value of kind Any that is an error and no json.Marshaler
PlainError(v) == v.E /\ ~v.M

\* a value of kind Any that is handed to the marshal write, which fails
MarshalFails(v) == ~PlainError(v) /\ ~v.OK

\* the line holds, n times and under the key of attribute a of kind Any, the
\* message as a string when the value is an error and no json.Marshaler, the
\* marshalled value otherwise, and nothing when marshalling fails
AnyWritten(line, a, n) ==
    LET v == a.Value
        field == IF PlainError(v) THEN Field(a.Key, "string", v.S, 0, FALSE)
                 ELSE Field(a.Key, "json", jsonMarshal(v), 0, FALSE)
    IN  FieldsUnder(line, a.Key) = [i \in 1..(IF MarshalFails(v) THEN 0 ELSE n) |-> field]

\* the attributes of kind Any the WithAttrs calls of a history were given
BoundAnys(cs) ==
    { a \in UNION { { c.as[i] : i \in 1..Len(c.as) } : c \in { cs[j] : j \in 1..Len(cs) } } :
        a.Value.Kind = "Any" }

\* C22: an attribute of kind Any whose value is an error and no json.Marshaler
\* is written as the string err.Error() gives, under its key, and adds no
\* error; every other value (a json.Marshaler, error or not, or a plain value)
\* goes to AddMarshal: it is written as the marshalled value, or, when
\* marshalling fails, nothing is written under the key and the failure is in
\* the error Handle returns, one for each such attribute of the record, while
\* the other attributes of the record are written and the line is emitted.
C22_AnyDispatch ==
    Handled =>
        LET as == ret.r.Attrs
            anys == { i \in 1..Len(as) : as[i].Value.Kind = "Any" }
            failing == { i \in anys : MarshalFails(as[i].Value) }
            withAttrs == Cardinality({ j \in 1..Len(hist[ret.h]) : hist[ret.h][j].op = "WithAttrs" })
        IN  /\ \A i \in anys : AnyWritten(AttrsPart, as[i], 1)
            /\ \A a \in BoundAnys(hist[ret.h]) : AnyWritten(AttrsPart, a, withAttrs)
            /\ ret.err = [i \in 1..Cardinality(failing) |-> "cannot be marshaled"]
            /\ \A i \in (1..Len(as)) \ anys :
                   FieldsUnder(AttrsPart, as[i].Key)
                       = <<Field(as[i].Key, "string", as[i].Value.S, 0, FALSE)>>
            /\ ret.written

\* after WithAttrs of an error and of an error that is a json.Marshaler, a
\* record with an error json.Marshal could not encode, a string and
\* ErroringMarshal{}: the messages and the rendering are in the line, the
\* failure of the last attribute is returned
C22_Witness ==
    /\ Handled
    /\ ret.r.Attrs = << Attr("A", AnyValue("a", FALSE, TRUE, FALSE)), AttrCorrect, AttrErroring >>
    /\ AttrsPart = << Field("BoundError", "string", "unknown error", 0, FALSE),
                      Field("BoundJSONError", "json", "{\"message\":\"foo\"}", 0, FALSE),
                      Field("A", "string", "a", 0, FALSE),
                      Field("Correct", "string", "correct", 0, FALSE) >>
    /\ ret.err = <<"cannot be marshaled">>

====
